---------------------------- MODULE Spec2Model ----------------------------
(***************************************************************************)
(* The comfo integration: one update coordinator polling a ventilation     *)
(* unit (six data groups per refresh), a request debouncer in front of it, *)
(* three platform setups that await an initial refresh, the climate / fan  *)
(* write commands that ask for a refresh, the Twirp error translation and  *)
(* the config flow's user step.                                            *)
(***************************************************************************)
EXTENDS Integers, Sequences, FiniteSets, TLC

(* ------------------------------ bounds -------------------------------- *)
\* command invocations (entity service calls) in one run
NumCmds == 2

(* ----------------------------- const.py ------------------------------- *)
CACHE_BOOTINFO == 0
CACHE_BYPASS == 1
CACHE_ERRORS == 2
CACHE_FANS == 3
CACHE_FANPROFILES == 4
CACHE_TEMPS == 5

\* the keys of the dict built by async_comfo_update_cache, in await order
FetchOrder ==
    << CACHE_BOOTINFO, CACHE_ERRORS, CACHE_FANS,
       CACHE_FANPROFILES, CACHE_TEMPS, CACHE_BYPASS >>

Keys == { FetchOrder[i] : i \in 1..Len(FetchOrder) }

\* platforms forwarded by async_setup_entry
PLATFORMS == { "binary_sensor", "climate", "sensor" }

\* the debouncer's own execution plus one direct async_refresh per platform setup
Execs == PLATFORMS \cup { "deb" }

(* --------------------------- exceptions.py ---------------------------- *)
\* the outcome of a coroutine: it returned v, or raised exception exc (a
\* TwirpServerException carries a code)
Return(v) == [k |-> "return", exc |-> "none", code |-> "none", v |-> v]
Raise(exc, code) == [k |-> "raise", exc |-> exc, code |-> code, v |-> "none"]

\* Twirp error codes a device call can fail with ("Internal" stands for every
\* code other than Unavailable and DeadlineExceeded)
TwirpCodes == { "Unavailable", "DeadlineExceeded", "Internal" }

\* what a device call can raise: a TwirpServerException with a code, or an
\* exception of another shape
DeviceErrors ==
    { Raise("TwirpServerException", c) : c \in TwirpCodes }
        \cup { Raise("Exception", "none") }

\* names defined at module level in exceptions.py
ExceptionsExports ==
    { "CannotConnect", "TemperatureError", "HVACModeError",
      "twirp_exception_handler" }

\* twirp_exception_handler with DeadlineExceeded left out of the translated
\* codes
twirp_exception_handler_mut(o) ==
    IF o.k = "raise" /\ o.exc = "TwirpServerException" /\ o.code = "Unavailable"
    THEN Raise("CannotConnect", "none")
    ELSE o

\* twirp_exception_handler.wrapper: o is the outcome of the wrapped coroutine,
\* the value is the outcome the caller of the wrapper sees
twirp_exception_handler(o) ==
    IF o.k = "raise" /\ o.exc = "TwirpServerException"
    THEN IF o.code \in { "Unavailable", "DeadlineExceeded" }
         THEN Raise("CannotConnect", "none")
         ELSE o
    ELSE o

(* ---------------------------- __init__.py ----------------------------- *)
EmptyDict == [k \in {} |-> 0]

\* coordinator.data before the first successful refresh (None)
NoData == [set |-> FALSE, d |-> EmptyDict]

\* the dict literal of async_comfo_update_cache over the values fetched so far
Dict(got) ==
    [k \in { FetchOrder[i] : i \in 1..Len(got) } |->
        got[CHOOSE i \in 1..Len(got) : FetchOrder[i] = k]]

\* what the awaited fetch of one group can fail with: a device error, or the
\* expiry of async_timeout.timeout(10) around the whole batch
FetchErrors == DeviceErrors \cup { Raise("TimeoutError", "none") }

\* async_comfo_update_cache with the except clause returning the dict built so
\* far instead of raising
async_comfo_update_cache_partial(got, o) ==
    IF o.k = "return"
    THEN LET g == Append(got, o.v) IN
         IF Len(g) = Len(FetchOrder)
         THEN [k |-> "return", got |-> g, val |-> [set |-> TRUE, d |-> Dict(g)],
               exc |-> "none"]
         ELSE [k |-> "await", got |-> g, val |-> NoData, exc |-> "none"]
    ELSE [k |-> "return", got |-> got, val |-> [set |-> TRUE, d |-> Dict(got)],
          exc |-> "none"]

\* async_comfo_update_cache with the except clause swallowing the error (the
\* function then returns None)
async_comfo_update_cache_none(got, o) ==
    IF o.k = "return"
    THEN LET g == Append(got, o.v) IN
         IF Len(g) = Len(FetchOrder)
         THEN [k |-> "return", got |-> g, val |-> [set |-> TRUE, d |-> Dict(g)],
               exc |-> "none"]
         ELSE [k |-> "await", got |-> g, val |-> NoData, exc |-> "none"]
    ELSE [k |-> "return", got |-> got, val |-> NoData, exc |-> "none"]

\* one resumption of async_comfo_update_cache: got are the groups fetched so
\* far, o the outcome of the fetch it was awaiting.  It awaits the next group,
\* returns the six-key dict, or raises UpdateFailed for any exception
\* (the batch timeout's TimeoutError included)
async_comfo_update_cache(got, o) ==
    IF o.k = "return"
    THEN LET g == Append(got, o.v) IN
         IF Len(g) = Len(FetchOrder)
         THEN [k |-> "return", got |-> g, val |-> [set |-> TRUE, d |-> Dict(g)],
               exc |-> "none"]
         ELSE [k |-> "await", got |-> g, val |-> NoData, exc |-> "none"]
    ELSE [k |-> "raise", got |-> got, val |-> NoData, exc |-> "UpdateFailed"]

\* Error Classifier of the coordinator: the category of the exception a
\* refresh execution ended with
classify(o) ==
    CASE o.exc = "TimeoutError" -> "DeadlineExceeded"
      [] o.exc = "TwirpServerException" /\ o.code = "Unavailable" -> "Unavailable"
      [] o.exc = "TwirpServerException" /\ o.code = "DeadlineExceeded" -> "DeadlineExceeded"
      [] OTHER -> "Other"

\* the exception async_comfo_update_cache leaves the coordinator with (r is a
\* result of async_comfo_update_cache with r.k = "raise")
UpdateError(r) == Raise(r.exc, "none")

\* RefreshData that drops the snapshot when the execution failed
RefreshData_clear(r, old) == IF r.k = "return" THEN r.val ELSE NoData

\* Snapshot Cache after a refresh execution ended with r: replaced wholesale on
\* success, untouched on failure
RefreshData(r, old) == IF r.k = "return" THEN r.val ELSE old

\* CoordinatorState.lastError after a refresh execution ended with r
RefreshError(r) == IF r.k = "return" THEN "none" ELSE classify(UpdateError(r))

(* ------------------------- Refresh Debouncer -------------------------- *)
\* a request arrives: execute now when Idle, else record that one more call
\* is wanted
DebouncerCall(st, tr) ==
    CASE st = "Idle" -> [start |-> TRUE, st |-> "Executing", tr |-> FALSE]
      [] st = "Executing" -> [start |-> FALSE, st |-> "Executing", tr |-> TRUE]
      [] OTHER -> [start |-> FALSE, st |-> "Cooldown", tr |-> TRUE]

\* DebouncerDone that resolves the waiting callers on every completion
DebouncerDone_stale(tr) ==
    IF tr
    THEN [start |-> TRUE, st |-> "Executing", tr |-> FALSE, resolve |-> TRUE]
    ELSE [start |-> FALSE, st |-> "Cooldown", tr |-> FALSE, resolve |-> TRUE]

\* DebouncerDone that never clears the trailing-call mark
DebouncerDone_sticky(tr) ==
    IF tr
    THEN [start |-> TRUE, st |-> "Executing", tr |-> TRUE, resolve |-> FALSE]
    ELSE [start |-> FALSE, st |-> "Cooldown", tr |-> FALSE, resolve |-> TRUE]

\* the execution completes: a wanted trailing call starts at once, otherwise
\* the cooldown starts and the waiting callers get the result
DebouncerDone(tr) ==
    IF tr
    THEN [start |-> TRUE, st |-> "Executing", tr |-> FALSE, resolve |-> FALSE]
    ELSE [start |-> FALSE, st |-> "Cooldown", tr |-> FALSE, resolve |-> TRUE]

\* the cooldown timer expires: a call recorded during the cooldown executes
DebouncerTimer(tr) ==
    IF tr
    THEN [start |-> TRUE, st |-> "Executing", tr |-> FALSE]
    ELSE [start |-> FALSE, st |-> "Idle", tr |-> FALSE]

(* ------------------------ climate.py and fan.py ----------------------- *)
CommandKinds ==
    { "configure_fan_profile", "set_temperature", "set_fan_mode", "set_speed" }

\* the platform whose entity carries the command
CommandPlatform(kind) == IF kind = "set_speed" THEN "fan" ELSE "climate"

\* the temperature argument of the set_temperature service: None or a value
Temperatures == { "None", "21" }

\* async_set_temperature without the check of its argument
TemperatureValid_unchecked(temp) == TRUE

\* ComfoUnit.async_set_temperature: `if temperature is None: raise
\* TemperatureError`, before the device call
TemperatureValid(temp) == temp # "None"

\* ComfoUnit.async_configure_fan_profile, after the device call returned
\* modified: TRUE iff it goes on to async_update_ha_state(force_refresh=True)
async_configure_fan_profile(modified) == modified

\* async_set_temperature with the refresh outside the if, as async_set_fan_mode
\* has it
async_set_temperature_always(modified) == TRUE

\* ComfoUnit.async_set_temperature, after the device call returned modified
async_set_temperature(modified) == modified

\* ComfoUnit.async_set_fan_mode, after the device call returned modified: the
\* refresh is outside the if
async_set_fan_mode(modified) == TRUE

\* ComfoFan.async_set_speed, after the device call returned modified: the
\* refresh is outside the if
async_set_speed(modified) == TRUE

\* whether the handler of the command goes on to request a refresh
CommandRefreshes(kind, modified) ==
    CASE kind = "configure_fan_profile" -> async_configure_fan_profile(modified)
      [] kind = "set_temperature" -> async_set_temperature(modified)
      [] kind = "set_fan_mode" -> async_set_fan_mode(modified)
      [] OTHER -> async_set_speed(modified)

\* what a write call to the device can end in
CommandResults == { Return("True"), Return("False") } \cup DeviceErrors

(* -------------------------- binary_sensor.py -------------------------- *)
\* the Filter flag of the errors group as the snapshot holds it: 0 is False
\* (the filter is fine), 1 is True (the filter is to be replaced)
FilterFlags == { 0, 1 }

\* ComfoBinarySensor.is_on for the Filter sensor: v is the flag read from
\* coordinator.data[CACHE_ERRORS]; `assert bool(v)` raises AssertionError on a
\* false flag unless the interpreter runs optimised (-O strips asserts)
is_on(v, optimize) ==
    IF v # 0 THEN Return("True")
    ELSE IF optimize THEN Return("False")
    ELSE Raise("AssertionError", "none")

(* --------------------------- config_flow.py --------------------------- *)
\* names config_flow.py imports from .exceptions
ConfigFlowImports == { "CannotConnect", "RequestTimeout", "twirp_exception_handler" }

\* whether `from .exceptions import ...` of config_flow.py succeeds
ConfigFlowImportOk == ConfigFlowImports \subseteq ExceptionsExports

Hosts == { "1.1.1.1", "2.2.2.2" }

\* the outcomes of the two device calls of validate_input: get_bootinfo is
\* not called when ping raised (test_form_cannot_connect has ping raise
\* CannotConnect itself)
ValidateRuns ==
    { <<Return("True"), b>> : b \in { Return("Mock Device") } \cup DeviceErrors }
        \cup { <<e, Return("not called")>> :
                  e \in DeviceErrors \cup { Raise("CannotConnect", "none") } }

\* validate_input (decorated): ping, then get_bootinfo, then the title
validate_input(host, ping, boot) ==
    twirp_exception_handler(
        IF ping.k = "raise" THEN ping
        ELSE IF boot.k = "raise" THEN boot
        ELSE Return(<<"Zehnder", boot.v, host>>))

\* ConfigFlow.async_step_user for a submitted host (user_input is not None)
\* and with no input; the module's import of a name exceptions.py does not
\* define raises ImportError, and the flow's handler cannot be loaded
async_step_user(input, ping, boot) ==
    IF ~ConfigFlowImportOk
    THEN [type |-> "import_error", errors |-> "none", title |-> <<>>,
          data |-> "none"]
    ELSE IF input = "none"
    THEN [type |-> "form", errors |-> "{}", title |-> <<>>, data |-> "none"]
    ELSE LET info == validate_input(input, ping, boot) IN
         IF info.k = "return"
         THEN [type |-> "create_entry", errors |-> "none", title |-> info.v,
               data |-> input]
         ELSE [type |-> "form",
               errors |-> CASE info.exc = "CannotConnect" -> "cannot_connect"
                            [] info.exc = "RequestTimeout" -> "request_timeout"
                            [] OTHER -> "unknown",
               title |-> <<>>, data |-> "none"]

(* ------------------------------- state -------------------------------- *)
VARIABLES
    dev,        \* the unit: versions of its fan profiles and of its comfort temperature
    data,       \* coordinator.data: the snapshot
    lastError,  \* the classified outcome of the last finished execution
    run,        \* per execution: in flight or not, and the groups fetched so far
    setup,      \* per platform: where its async_setup_entry is
    deb,        \* the debouncer's state
    trailing,   \* the debouncer's "one more call wanted" mark
    cmd,        \* the command invocations
    burst,      \* history: requests and executions since the debouncer left Idle
    ev          \* history: what the last step was

vars == << dev, data, lastError, run, setup, deb, trailing, cmd, burst, ev >>

Cmds == 1..NumCmds

NotRunning == [active |-> FALSE, got |-> <<>>]
Started == [active |-> TRUE, got |-> <<>>]

\* a command invocation: where its handler is, its kind while the device call
\* is out, and, for the refresh it requested, the debouncer's state when the
\* request arrived and what the caller has seen of executions since
NoCmd == [st |-> "idle", kind |-> "none", arr |-> "none", fresh |-> "no"]

NoBurst == [reqs |-> 0, execs |-> 0, late |-> FALSE, tick |-> FALSE]

NoFlow == [type |-> "none", errors |-> "none", title |-> <<>>, data |-> "none"]

\* the last step: "exec" an execution finished (cause is the exception inside
\* it, resolved the <<arr, fresh>> of the callers it resolved), "cmd" a
\* command handler got past its device call or raised before it (kind, the
\* device's result, the refresh requests it issued, its outcome, "pending"
\* while it awaits the refresh), "flow" the config flow's user step returned
\* (input the submitted host, dres the failure of its device calls), "invoke"
\* a command handler reached its device call (input the temperature argument),
\* "unload" async_unload_entry returned out; notified are the platforms whose
\* entities were told of a finished execution; "tick" the periodic timer
\* fired; "read" the Filter binary sensor's state was read (out is what is_on
\* ended in)
NoEv ==
    [type |-> "none", cause |-> "none", resolved |-> {}, kind |-> "none",
     dres |-> "none", reqs |-> 0, out |-> Return("none"), input |-> "none",
     flow |-> NoFlow, notified |-> {}]

Init ==
    /\ dev = [fp |-> 0, temps |-> 0]
    /\ data = NoData
    /\ lastError = "none"
    /\ run = [e \in Execs |-> NotRunning]
    /\ setup = [p \in PLATFORMS |-> "pending"]
    /\ deb = "Idle"
    /\ trailing = FALSE
    /\ cmd = [c \in Cmds |-> NoCmd]
    /\ burst = NoBurst
    /\ ev = NoEv

\* the record the unit returns for a data group
DeviceGroup(k) ==
    IF k = CACHE_FANPROFILES THEN dev.fp
    ELSE IF k = CACHE_TEMPS THEN dev.temps
    ELSE 0

\* the unit after a write that changed it
DeviceWrite(kind) ==
    IF kind = "set_temperature"
    THEN [dev EXCEPT !.temps = @ + 1]
    ELSE [dev EXCEPT !.fp = @ + 1]

\* the entities of a platform exist once its setup has registered them
Registered(p) == p \in PLATFORMS /\ setup[p] = "registered"

\* every forwarded platform setup has returned or raised
SetupsFinished == \A p \in PLATFORMS : setup[p] \in { "registered", "crashed" }

\* the entry has been unloaded: its platforms are gone and its hass.data item
\* is popped
Unloaded == \A p \in PLATFORMS : setup[p] = "unloaded"

\* the coordinator's subscribers: the entities of the platforms set up, as
\* left by the step that is being taken
Listeners(su) == { p \in PLATFORMS : su[p] = "registered" }

\* the groups a platform's setup reads from coordinator.data right after the
\* awaited refresh (the device name; the state of the optional sensors)
SetupReads(p) ==
    IF p = "sensor" THEN { CACHE_BOOTINFO, CACHE_TEMPS } ELSE { CACHE_BOOTINFO }

\* the waiting callers' view of executions: one started after their arrival
MarkStarted(cm) ==
    [c \in Cmds |->
        IF cm[c].st = "waiting" /\ cm[c].fresh = "no"
        THEN [cm[c] EXCEPT !.fresh = "started"] ELSE cm[c]]

\* ... and that one completed
MarkCompleted(cm) ==
    [c \in Cmds |->
        IF cm[c].st = "waiting" /\ cm[c].fresh = "started"
        THEN [cm[c] EXCEPT !.fresh = "completed"] ELSE cm[c]]

\* the waiting callers get the outcome: their handler returns
Resolve(cm) ==
    [c \in Cmds |->
        IF cm[c].st = "waiting" THEN [NoCmd EXCEPT !.st = "done"] ELSE cm[c]]

\* a refresh request reaches the debouncer; c is the waiting caller, 0 for the
\* periodic timer; cm is cmd as the requesting handler leaves it
Request(c, cm) ==
    LET r == DebouncerCall(deb, trailing)
        w == IF c \in Cmds
             THEN [cm EXCEPT ![c].st = "waiting", ![c].arr = deb,
                             ![c].fresh = IF r.start THEN "started" ELSE "no"]
             ELSE cm
    IN  /\ deb' = r.st
        /\ trailing' = r.tr
        /\ run' = IF r.start THEN [run EXCEPT !["deb"] = Started] ELSE run
        /\ burst' = IF deb = "Idle"
                    THEN [reqs |-> 1, execs |-> IF r.start THEN 1 ELSE 0,
                          late |-> FALSE, tick |-> c = 0]
                    ELSE [burst EXCEPT
                            !.reqs = @ + 1,
                            !.late = @ \/ deb = "Cooldown" \/ burst.execs >= 2,
                            !.tick = @ \/ c = 0]
        /\ cmd' = w

(* ------------------------------ actions ------------------------------- *)
\* a platform's async_setup_entry starts: it awaits coordinator.async_refresh(),
\* which runs the refresh execution itself up to its first fetch
SetupStart(p) ==
    /\ setup[p] = "pending"
    /\ setup' = [setup EXCEPT ![p] = "refreshing"]
    /\ run' = [run EXCEPT ![p] = Started]
    /\ ev' = NoEv
    /\ UNCHANGED << dev, data, lastError, deb, trailing, cmd, burst >>

\* the fetch an execution awaits ends in o; the execution goes on to the next
\* fetch or finishes, and what awaited it continues
ExecStep(e, o) ==
    /\ run[e].active
    /\ LET r == async_comfo_update_cache(run[e].got, o) IN
       IF r.k = "await"
       THEN /\ run' = [run EXCEPT ![e].got = r.got]
            /\ ev' = NoEv
            /\ UNCHANGED << dev, data, lastError, setup, deb, trailing, cmd,
                            burst >>
       ELSE /\ data' = RefreshData(r, data)
            /\ lastError' = RefreshError(r)
            /\ IF e \in PLATFORMS
               THEN /\ run' = [run EXCEPT ![e] = NotRunning]
                    /\ setup' = [setup EXCEPT ![e] =
                                   IF data'.set /\ SetupReads(e) \subseteq DOMAIN data'.d
                                   THEN "registered" ELSE "crashed"]
                    /\ ev' = [NoEv EXCEPT !.type = "exec", !.cause = o.exc,
                                          !.notified = Listeners(setup)]
                    /\ UNCHANGED << deb, trailing, cmd, burst >>
               ELSE LET d == DebouncerDone(trailing)
                        m == MarkCompleted(cmd) IN
                    /\ deb' = d.st
                    /\ trailing' = d.tr
                    /\ run' = [run EXCEPT ![e] = IF d.start THEN Started ELSE NotRunning]
                    /\ burst' = IF d.start THEN [burst EXCEPT !.execs = @ + 1]
                                ELSE burst
                    /\ cmd' = IF d.resolve THEN Resolve(m)
                              ELSE IF d.start THEN MarkStarted(m) ELSE m
                    /\ ev' = [NoEv EXCEPT
                                !.type = "exec", !.cause = o.exc,
                                !.notified = Listeners(setup),
                                !.out = IF d.resolve
                                        THEN twirp_exception_handler(Return("None"))
                                        ELSE Return("none"),
                                !.resolved =
                                    IF d.resolve
                                    THEN { <<m[c].arr, m[c].fresh>> :
                                             c \in { x \in Cmds : m[x].st = "waiting" } }
                                    ELSE {}]
                    /\ UNCHANGED setup
            /\ UNCHANGED dev

\* the awaited fetch returns the group's record
FetchOk(e) ==
    /\ run[e].active
    /\ ExecStep(e, Return(DeviceGroup(FetchOrder[Len(run[e].got) + 1])))

\* the awaited fetch raises, or the batch timeout expires
FetchFail(e, o) == ExecStep(e, o)

\* the cooldown timer of the debouncer fires
CooldownExpire ==
    /\ deb = "Cooldown"
    /\ LET t == DebouncerTimer(trailing) IN
       /\ deb' = t.st
       /\ trailing' = t.tr
       /\ run' = IF t.start THEN [run EXCEPT !["deb"] = Started] ELSE run
       /\ burst' = IF t.start THEN [burst EXCEPT !.execs = @ + 1] ELSE NoBurst
       /\ cmd' = IF t.start THEN MarkStarted(cmd) ELSE cmd
    /\ ev' = NoEv
    /\ UNCHANGED << dev, data, lastError, setup >>

\* the periodic timer ticks: the coordinator polls only while it has
\* listeners; the first tick is a poll interval after the first listener, by
\* when the setups, each bounded by the batch timeout, are over; and at most
\* one tick falls into one burst of the debouncer
Tick ==
    /\ \E p \in PLATFORMS : Registered(p)
    /\ SetupsFinished
    /\ deb = "Idle" \/ ~burst.tick
    /\ Request(0, cmd)
    /\ ev' = [NoEv EXCEPT !.type = "tick"]
    /\ UNCHANGED << dev, data, lastError, setup >>

\* a service call reaches an entity's handler, which runs up to its device
\* call (service calls are taken once every platform of the entry is set up)
CmdInvoke(c, kind, temp) ==
    /\ cmd[c].st = "idle"
    /\ \A p \in PLATFORMS : Registered(p)
    /\ IF c = 1 THEN TRUE ELSE cmd[c - 1].st # "idle"
    /\ Registered(CommandPlatform(kind))
    /\ IF kind = "set_temperature" /\ ~TemperatureValid(temp)
       THEN /\ cmd' = [cmd EXCEPT ![c].st = "done"]
            /\ ev' = [NoEv EXCEPT
                        !.type = "cmd", !.kind = kind, !.dres = "not called",
                        !.input = temp,
                        !.out = twirp_exception_handler(
                                    Raise("TemperatureError", "none"))]
       ELSE /\ cmd' = [cmd EXCEPT ![c].st = "calling", ![c].kind = kind]
            /\ ev' = [NoEv EXCEPT
                        !.type = "invoke", !.kind = kind,
                        !.input = IF kind = "set_temperature" THEN temp
                                  ELSE "none"]
    /\ UNCHANGED << dev, data, lastError, run, setup, deb, trailing, burst >>

\* the device call of a command ends in o; the handler runs on to its end or
\* to the refresh it awaits
CmdDeviceReturn(c, o) ==
    /\ cmd[c].st = "calling"
    /\ IF o.k = "raise"
       THEN /\ cmd' = [cmd EXCEPT ![c] = [NoCmd EXCEPT !.st = "done"]]
            /\ ev' = [NoEv EXCEPT
                        !.type = "cmd", !.kind = cmd[c].kind,
                        !.dres = IF o.code = "none" THEN o.exc ELSE o.code,
                        !.out = twirp_exception_handler(o)]
            /\ UNCHANGED << dev, run, deb, trailing, burst >>
       ELSE LET modified == o.v = "True"
                base == [cmd EXCEPT ![c].kind = "none"] IN
            /\ dev' = IF modified THEN DeviceWrite(cmd[c].kind) ELSE dev
            /\ IF CommandRefreshes(cmd[c].kind, modified)
               THEN /\ Request(c, base)
                    /\ ev' = [NoEv EXCEPT
                                !.type = "cmd", !.kind = cmd[c].kind,
                                !.dres = o.v, !.reqs = 1,
                                !.out = Return("pending")]
               ELSE /\ cmd' = [base EXCEPT ![c].st = "done"]
                    /\ ev' = [NoEv EXCEPT
                                !.type = "cmd", !.kind = cmd[c].kind,
                                !.dres = o.v,
                                !.out = twirp_exception_handler(Return("None"))]
                    /\ UNCHANGED << run, deb, trailing, burst >>
    /\ UNCHANGED << data, lastError, setup >>

\* the user step of the config flow, with or without input (the flow shares
\* nothing with a set-up entry; it is taken before the entry's setups start)
FlowStepUser(input, ping, boot) ==
    /\ \A p \in PLATFORMS : setup[p] = "pending"
    /\ ev' = [NoEv EXCEPT
                !.type = "flow", !.input = input,
                !.dres = IF input = "none" THEN "none"
                         ELSE IF ping.k = "raise"
                         THEN (IF ping.code = "none" THEN ping.exc ELSE ping.code)
                         ELSE IF boot.k = "raise"
                         THEN (IF boot.code = "none" THEN boot.exc ELSE boot.code)
                         ELSE "none",
                !.flow = async_step_user(input, ping, boot)]
    /\ UNCHANGED << dev, data, lastError, run, setup, deb, trailing, cmd,
                    burst >>

\* async_unload_entry: the platform unloads are gathered; when all of them
\* report success the entry's hass.data item is popped.  Nothing is done to
\* the coordinator, its debouncer or an execution in flight.  (An unload that
\* a platform refuses leaves the entry as it is; the entry is not unloaded
\* while a service handler is inside its device call.)
Unload(unload_ok) ==
    /\ SetupsFinished
    /\ \A c \in Cmds : cmd[c].st # "calling"
    /\ setup' = IF unload_ok THEN [p \in PLATFORMS |-> "unloaded"] ELSE setup
    /\ ev' = [NoEv EXCEPT !.type = "unload",
                          !.out = Return(IF unload_ok THEN "True" ELSE "False")]
    /\ UNCHANGED << dev, data, lastError, run, deb, trailing, cmd, burst >>

\* the awaited fetch returns the group's record, the errors group with its
\* Filter flag set or not
FetchOkFilter(e, flag) ==
    /\ run[e].active
    /\ LET k == FetchOrder[Len(run[e].got) + 1] IN
       ExecStep(e, Return(IF k = CACHE_ERRORS THEN flag ELSE DeviceGroup(k)))

\* the state of the Filter binary sensor is read (when its entity is added
\* and after every coordinator update): BinarySensorEntity.state calls is_on
ReadIsOn(optimize) ==
    /\ Registered("binary_sensor")
    /\ ev' = [NoEv EXCEPT
                !.type = "read",
                !.out = is_on(data.d[CACHE_ERRORS], optimize)]
    /\ UNCHANGED << dev, data, lastError, run, setup, deb, trailing, cmd,
                    burst >>

Next ==
    \/ \E p \in PLATFORMS : SetupStart(p)
    \/ \E e \in Execs : FetchOk(e)
    \/ \E e \in Execs, o \in FetchErrors : FetchFail(e, o)
    \/ CooldownExpire
    \/ Tick
    \/ \E c \in Cmds, kind \in CommandKinds, temp \in Temperatures :
          CmdInvoke(c, kind, temp)
    \/ \E c \in Cmds, o \in CommandResults : CmdDeviceReturn(c, o)
    \/ \E input \in Hosts \cup { "none" }, v \in ValidateRuns :
          FlowStepUser(input, v[1], v[2])
    \/ \E unload_ok \in BOOLEAN : Unload(unload_ok)

Spec == Init /\ [][Next]_vars

\* the platform setups with a unit whose Filter flag varies from fetch to
\* fetch, and reads of the Filter binary sensor
NextSensor ==
    \/ \E p \in PLATFORMS : SetupStart(p)
    \/ \E e \in PLATFORMS, flag \in FilterFlags : FetchOkFilter(e, flag)
    \/ \E e \in PLATFORMS, o \in FetchErrors : FetchFail(e, o)
    \/ \E optimize \in BOOLEAN : ReadIsOn(optimize)

SensorSpec == Init /\ [][NextSensor]_vars

(* ------------------------------ claims -------------------------------- *)
\* C1: the snapshot is never partial: it is unset with nothing in it, or it
\* holds a value for each of the six data-group keys, and it is set with all
\* six right after every execution that succeeded.
C1_SnapshotComplete ==
    /\ data.set => DOMAIN data.d = Keys
    /\ ~data.set => data.d = EmptyDict
    /\ (ev.type = "exec" /\ ev.cause = "none") => (data.set /\ DOMAIN data.d = Keys)

\* a refresh succeeded after the setup of another platform had crashed on a
\* failed first refresh
C1_Witness ==
    /\ ev.type = "exec" /\ ev.cause = "none"
    /\ data.set /\ DOMAIN data.d = Keys
    /\ \E p \in PLATFORMS : setup[p] = "crashed"

C3_UnchangedFanSpeedNoRefresh ==
    (ev.type = "cmd" /\ ev.kind \in { "set_fan_mode", "set_speed" }
        /\ ev.dres = "False") => ev.reqs = 0

\* C4: set-comfort-temperature and configure-fan-profile request a refresh
\* exactly when the device reported a change: one request, which has reached
\* the debouncer when the handler is past the device call, after changed=true;
\* none after changed=false.
C4_RefreshIffChanged ==
    (ev.type = "cmd" /\ ev.kind \in { "set_temperature", "configure_fan_profile" })
        => /\ ev.dres = "True" => (ev.reqs = 1 /\ deb # "Idle" /\ burst.reqs >= 1)
           /\ ev.dres # "True" => ev.reqs = 0

\* set-comfort-temperature changed the unit and its handler awaits the refresh
C4_Witness ==
    /\ ev.type = "cmd" /\ ev.kind = "set_temperature"
    /\ ev.dres = "True" /\ ev.reqs = 1
    /\ \E c \in Cmds : cmd[c].st = "waiting"

\* C5: the error translation gives every outcome of a wrapped handler one
\* result: Twirp Unavailable and DeadlineExceeded become CannotConnect, a
\* Twirp error with another code and an error of another shape propagate
\* unchanged, and a handler that returned returns its own result.
C5_TranslationTotal ==
    /\ ev.type = "cmd" =>
          CASE ev.dres \in { "Unavailable", "DeadlineExceeded" } ->
                  ev.out = Raise("CannotConnect", "none")
            [] ev.dres = "Internal" ->
                  ev.out = Raise("TwirpServerException", "Internal")
            [] ev.dres = "Exception" -> ev.out = Raise("Exception", "none")
            [] ev.dres = "not called" -> ev.out = Raise("TemperatureError", "none")
            [] OTHER -> ev.out \in { Return("None"), Return("pending") }
    /\ (ev.type = "exec" /\ ev.resolved # {}) => ev.out = Return("None")

\* a command's device call failed with DeadlineExceeded and its caller got
\* CannotConnect
C5_Witness ==
    /\ ev.type = "cmd" /\ ev.dres = "DeadlineExceeded"
    /\ ev.out = Raise("CannotConnect", "none")

\* C6: "cannot connect" and "request timed out" are different outcomes for the
\* caller: Unavailable gives cannot_connect and DeadlineExceeded gives
\* request_timeout in the config flow, any other failure gives unknown, and a
\* command that failed with DeadlineExceeded does not end in the outcome a
\* command that failed with Unavailable ends in.
C6_TimeoutDistinguishable ==
    /\ (ev.type = "flow" /\ ev.dres = "Unavailable") =>
          (ev.flow.type = "form" /\ ev.flow.errors = "cannot_connect")
    /\ (ev.type = "flow" /\ ev.dres = "DeadlineExceeded") =>
          (ev.flow.type = "form" /\ ev.flow.errors = "request_timeout")
    /\ (ev.type = "flow" /\ ev.dres \in { "Internal", "Exception" }) =>
          (ev.flow.type = "form" /\ ev.flow.errors = "unknown")
    /\ (ev.type = "cmd" /\ ev.dres = "DeadlineExceeded") =>
          ev.out # twirp_exception_handler(Raise("TwirpServerException", "Unavailable"))

\* C7: an execution in which the batch timeout expired ends with the
\* classified outcome DeadlineExceeded.
C7_TimeoutIsDeadlineExceeded ==
    (ev.type = "exec" /\ ev.cause = "TimeoutError") => lastError = "DeadlineExceeded"

\* C8: at most one refresh execution is in flight at any time.
C8_SingleFlight == Cardinality({ e \in Execs : run[e].active }) <= 1

\* C9: of a burst of requests that starts with the debouncer Idle, the first
\* starts an execution at once, and while every request of the burst arrived
\* before that first execution finished, at most one more execution (the
\* trailing one) starts: at most two for the burst.
C9_BurstAtMostTwo ==
    /\ deb # "Idle" => (burst.reqs >= 1 /\ burst.execs >= 1)
    /\ deb = "Idle" => (burst = NoBurst /\ ~run["deb"].active)
    /\ ~burst.late => burst.execs <= 2
    /\ run["deb"].active <=> deb = "Executing"

\* a burst of three requests is over after two executions
C9_Witness ==
    /\ burst.reqs >= 3 /\ ~burst.late
    /\ burst.execs = 2
    /\ deb = "Cooldown"

\* C10: a caller whose request arrived while an execution was in flight is
\* resolved only by the completion of an execution that started after its
\* arrival.
C10_ResolvedByLaterExecution ==
    ev.type = "exec" =>
        \A x \in ev.resolved : x[1] = "Executing" => x[2] = "completed"

\* a caller that arrived during an execution is resolved by the trailing one
C10_Witness ==
    /\ ev.type = "exec"
    /\ <<"Executing", "completed">> \in ev.resolved

\* C11: set-comfort-temperature called with no temperature ends in
\* TemperatureError in the step in which it is called: the device call is not
\* reached, no refresh is requested, and the unit, the snapshot, the
\* executions and the debouncer are as they were.
C11_InvalidTemperatureFailsFast ==
    [][ (ev'.type \in { "cmd", "invoke" } /\ ev'.kind = "set_temperature"
            /\ ev'.input = "None")
        => /\ ev'.type = "cmd"
           /\ ev'.dres = "not called"
           /\ ev'.out = Raise("TemperatureError", "none")
           /\ ev'.reqs = 0
           /\ \A c \in Cmds : cmd'[c].st \notin { "calling", "waiting" }
                                 \/ cmd'[c] = cmd[c]
           /\ UNCHANGED << dev, data, lastError, run, deb, trailing, burst >> ]_vars

\* set-comfort-temperature without a value has just failed, with a snapshot
\* cached
C11_Witness ==
    /\ ev.type = "cmd" /\ ev.kind = "set_temperature" /\ ev.input = "None"
    /\ ev.out = Raise("TemperatureError", "none")
    /\ data.set
    /\ \E c \in Cmds : cmd[c].st = "done"

\* C12: once the entry is unloaded, an execution that finishes notifies no
\* subscriber and leaves the snapshot as it was at the unload.
C12_TeardownDiscardsResult ==
    [][ (Unloaded /\ ev'.type = "exec")
        => (data' = data /\ ev'.notified = {}) ]_vars

\* C13: the user step of the config flow creates an entry exactly when ping
\* and get_bootinfo both returned, titled "Zehnder <DeviceName> (<host>)" and
\* with the submitted input as data; when validation fails with CannotConnect
\* it shows the form with errors {base: cannot_connect}; with no input it
\* shows the form with empty errors.
C13_UserStepOutcome ==
    ev.type = "flow" =>
        /\ ev.input = "none" =>
              (ev.flow.type = "form" /\ ev.flow.errors = "{}")
        /\ (ev.input # "none" /\ ev.dres = "none") =>
              /\ ev.flow.type = "create_entry"
              /\ ev.flow.title = << "Zehnder", "Mock Device", ev.input >>
              /\ ev.flow.data = ev.input
        /\ (ev.input # "none"
               /\ ev.dres \in { "CannotConnect", "Unavailable", "DeadlineExceeded" }) =>
              (ev.flow.type = "form" /\ ev.flow.errors = "cannot_connect")
        /\ ev.flow.type = "create_entry" =>
              (ev.input # "none" /\ ev.dres = "none")

\* C14: a failed execution of a burst the periodic timer took part in is
\* absorbed: the subscribers are told, the snapshot stays, the failure is on
\* record and the debouncer goes on (it is Executing only while its execution
\* runs); while the entry has listeners and the debouncer is Idle the timer
\* can tick whatever the last outcome was, a tick that finds the debouncer
\* Idle starts an execution, and an execution that succeeds stores its
\* six-key snapshot and clears the failure.
C14_PeriodicFailureAbsorbed ==
    [][ /\ (ev'.type = "exec" /\ ev'.cause # "none" /\ burst.tick) =>
              /\ data' = data
              /\ lastError' # "none"
              /\ ev'.notified = Listeners(setup)
              /\ deb' # "Idle"
              /\ (deb' = "Executing") = run'["deb"].active
        /\ (deb = "Idle" /\ SetupsFinished /\ Listeners(setup) # {}) => ENABLED Tick
        /\ (ev'.type = "tick" /\ deb = "Idle") =>
              (run'["deb"] = Started /\ deb' = "Executing")
        /\ (ev'.type = "exec" /\ ev'.cause = "none") =>
              (data'.set /\ DOMAIN data'.d = Keys /\ lastError' = "none") ]_vars

\* a periodic execution (no command has been called) has just failed with a
\* snapshot cached and listeners to tell
C14_Witness ==
    /\ ev.type = "exec" /\ ev.cause # "none"
    /\ burst.tick /\ \A c \in Cmds : cmd[c].st = "idle"
    /\ data.set /\ lastError # "none"
    /\ ev.notified # {}
    /\ deb = "Cooldown"

\* C15: when the refresh a command asked for fails, the command's caller gets
\* the classified error as its outcome, and the debouncer goes on to its
\* cooldown.
C15_CommandRefreshFailureSurfaced ==
    (ev.type = "exec" /\ ev.cause # "none" /\ ev.resolved # {}) =>
        /\ ev.out = Raise(lastError, "none")
        /\ deb = "Cooldown" /\ ~run["deb"].active

\* C16: when a platform setup gets past its awaited refresh and reads the
\* snapshot, the snapshot is set and holds the groups the setup reads, and
\* the setup registers its entities, whatever the refresh ended in.
C16_FetchBeforeRegister ==
    [][ \A p \in PLATFORMS :
          (setup[p] = "refreshing" /\ setup'[p] # "refreshing") =>
              /\ data'.set
              /\ SetupReads(p) \subseteq DOMAIN data'.d
              /\ setup'[p] = "registered" ]_vars

\* C17: reading the Filter binary sensor gives the Filter flag of the
\* snapshot's errors group, whether the flag is set or not: is_on returns,
\* and returns that value.
C17_IsOnReturnsFlag ==
    ev.type = "read" =>
        ev.out = Return(IF data.d[CACHE_ERRORS] # 0 THEN "True" ELSE "False")

=============================================================================
